---- MODULE Spec2Model ----
(***************************************************************************)
(* A model of playscrape.py: the click cache, the page stabilizer          *)
(* (expand_reviews), the review extractor (parse_reviews, extract_review), *)
(* identifier validation and the playscrape command.                       *)
(***************************************************************************)
EXTENDS Integers, Sequences, FiniteSets, TLC

(***************************************************************************)
(* Strings.  The state holds Python strings as TLA+ strings; Chars gives   *)
(* the characters of each string of the input pools, so that len(), [i],   *)
(* endswith() and strptime() are computed on characters.                   *)
(***************************************************************************)
Chars(s) ==
    CASE
         s = "" -> <<>>
      [] s = "Alice" -> <<"A","l","i","c","e">>
      [] s = "Bob" -> <<"B","o","b">>
      [] s = "Great app" -> <<"G","r","e","a","t"," ","a","p","p">>
      [] s = "June 1, 2020" -> <<"J","u","n","e"," ","1",","," ","2","0","2","0">>
      [] s = "june  02, 2020" -> <<"j","u","n","e"," "," ","0","2",","," ","2","0","2","0">>
      [] s = "Nov 23, 1234" -> <<"N","o","v"," ","2","3",","," ","1","2","3","4">>
      [] s = "February 30, 2021" -> <<"F","e","b","r","u","a","r","y"," ","3","0",","," ","2","0","2","1">>
      [] s = "Rated 5 stars out of five stars" -> <<"R","a","t","e","d"," ","5"," ","s","t","a","r","s"," ","o","u","t"," ","o","f"," ","f","i","v","e"," ","s","t","a","r","s">>
      [] s = "Rated 3 stars out of five stars" -> <<"R","a","t","e","d"," ","3"," ","s","t","a","r","s"," ","o","u","t"," ","o","f"," ","f","i","v","e"," ","s","t","a","r","s">>
      [] s = "Rated 10 stars out of five stars" -> <<"R","a","t","e","d"," ","1","0"," ","s","t","a","r","s"," ","o","u","t"," ","o","f"," ","f","i","v","e"," ","s","t","a","r","s">>
      [] s = "Close" -> <<"C","l","o","s","e">>

\* The non-Python value None (of get_rating, get_element_text, aria-label).
None == "None"

\* str.lower() on one character, as re.IGNORECASE compares month names.
UpperToLower ==
    ("A" :> "a") @@ ("B" :> "b") @@ ("C" :> "c") @@ ("D" :> "d") @@ ("E" :> "e") @@ ("F" :> "f") @@
    ("G" :> "g") @@ ("H" :> "h") @@ ("I" :> "i") @@ ("J" :> "j") @@ ("K" :> "k") @@ ("L" :> "l") @@
    ("M" :> "m") @@ ("N" :> "n") @@ ("O" :> "o") @@ ("P" :> "p") @@ ("Q" :> "q") @@ ("R" :> "r") @@
    ("S" :> "s") @@ ("T" :> "t") @@ ("U" :> "u") @@ ("V" :> "v") @@ ("W" :> "w") @@ ("X" :> "x") @@
    ("Y" :> "y") @@ ("Z" :> "z")

Lower(c) == IF c \in DOMAIN UpperToLower THEN UpperToLower[c] ELSE c

LowerSeq(cs) == [i \in 1..Len(cs) |-> Lower(cs[i])]

DigitVal ==
    ("0" :> 0) @@ ("1" :> 1) @@ ("2" :> 2) @@ ("3" :> 3) @@ ("4" :> 4) @@
    ("5" :> 5) @@ ("6" :> 6) @@ ("7" :> 7) @@ ("8" :> 8) @@ ("9" :> 9)

IsDigit(c) == c \in DOMAIN DigitVal

\* The full month names of the C/English locale, which %B matches.
MonthNames == <<
    <<"j","a","n","u","a","r","y">>,
    <<"f","e","b","r","u","a","r","y">>,
    <<"m","a","r","c","h">>,
    <<"a","p","r","i","l">>,
    <<"m","a","y">>,
    <<"j","u","n","e">>,
    <<"j","u","l","y">>,
    <<"a","u","g","u","s","t">>,
    <<"s","e","p","t","e","m","b","e","r">>,
    <<"o","c","t","o","b","e","r">>,
    <<"n","o","v","e","m","b","e","r">>,
    <<"d","e","c","e","m","b","e","r">>>>

\* str.endswith / str.startswith on characters.
EndsWith(cs, suffix) ==
    /\ Len(cs) >= Len(suffix)
    /\ SubSeq(cs, Len(cs) - Len(suffix) + 1, Len(cs)) = suffix

StartsWith(cs, prefix) ==
    /\ Len(cs) >= Len(prefix)
    /\ SubSeq(cs, 1, Len(prefix)) = prefix

IsLeap(y) == (y % 4 = 0 /\ y % 100 # 0) \/ y % 400 = 0

DaysIn(m, y) ==
    IF m = 2 THEN (IF IsLeap(y) THEN 29 ELSE 28)
    ELSE IF m \in {4, 6, 9, 11} THEN 30 ELSE 31

\* The first index >= i of cs that holds no space (Len(cs)+1 when none).
RECURSIVE SkipSpaces(_, _)
SkipSpaces(cs, i) ==
    IF i <= Len(cs) /\ cs[i] = " " THEN SkipSpaces(cs, i + 1) ELSE i

\* The calendar's check of datetime(year, month, day).
ValidDate(year, m, day) == year >= 1 /\ day >= 1 /\ day <= DaysIn(m, year)

YearValue(cs, y) ==
    1000 * DigitVal[cs[y]] + 100 * DigitVal[cs[y + 1]] + 10 * DigitVal[cs[y + 2]]
    + DigitVal[cs[y + 3]]

\* %Y at y, after whitespace from b on: four digits that end the text.
YearAt(cs, m, day, b, y) ==
    /\ y > b
    /\ Len(cs) = y + 3
    /\ \A k \in y..(y + 3) : IsDigit(cs[k])
    /\ ValidDate(YearValue(cs, y), m, day)

\* The comma of the format at c, then whitespace and the year.
CommaAt(cs, m, day, c) ==
    /\ c <= Len(cs)
    /\ cs[c] = ","
    /\ YearAt(cs, m, day, c + 1, SkipSpaces(cs, c + 1))

\* %d at d, after whitespace from a on: two digits, or one.
DayAt(cs, m, a, d) ==
    /\ d > a
    /\ d <= Len(cs)
    /\ IsDigit(cs[d])
    /\ IF d + 1 <= Len(cs) /\ IsDigit(cs[d + 1])
       THEN CommaAt(cs, m, 10 * DigitVal[cs[d]] + DigitVal[cs[d + 1]], d + 2)
       ELSE CommaAt(cs, m, DigitVal[cs[d]], d + 1)

\* dt.strptime(text, "%B %d, %Y") succeeds: month name, whitespace, a day of
\* one or two digits, a comma, whitespace, a year of four digits, nothing
\* after it, and the three make a date of the calendar.
ParsesAsDate(cs) ==
    \E m \in 1..12 :
        /\ StartsWith(LowerSeq(cs), MonthNames[m])
        /\ DayAt(cs, m, Len(MonthNames[m]) + 1, SkipSpaces(cs, Len(MonthNames[m]) + 1))

is_date(text) == ParsesAsDate(Chars(text))

(***************************************************************************)
(* The review extractor.  An element of the parsed snapshot is a record    *)
(* [label, children, text]: its aria-label attribute (None when it has     *)
(* none), the number of its descendants (findChildren) and its text.  A    *)
(* candidate container is [class, elems], elems being its descendants in   *)
(* document order.                                                         *)
(***************************************************************************)
RatingSuffix ==
    <<"s","t","a","r","s"," ","o","u","t"," ","o","f"," ","f","i","v","e"," ","s","t","a","r","s">>

RatingLen == 31

RatingOffset == 6

\* bool(v) of a value that is None or a string.
Truthy(v) == v # None /\ v # ""

\* The test of get_rating on the attribute's value.
IsRating(rating) ==
    /\ rating # None
    /\ EndsWith(Chars(rating), RatingSuffix)
    /\ Len(Chars(rating)) = RatingLen

get_rating(element) ==
    IF IsRating(element.label) THEN Chars(element.label)[RatingOffset + 1] ELSE None

get_element_text(element) ==
    IF element.children > 0 THEN None ELSE element.text

\* list(filter(bool, map(f, xs))) for the two maps of extract_review.
Ratings(elems) ==
    SelectSeq([i \in 1..Len(elems) |-> get_rating(elems[i])], Truthy)

LeafTexts(elems) ==
    SelectSeq([i \in 1..Len(elems) |-> get_element_text(elems[i])], Truthy)

\* What a call returns: a value (tag "dict" or "None") or a raised exception
\* (tag the exception's name).
Outcome(tag, reviewer, date, rating, review) ==
    [tag |-> tag, reviewer |-> reviewer, date |-> date, rating |-> rating,
     review |-> review]

ReturnNone == Outcome("None", "", "", None, "")

Raise(exc) == Outcome(exc, "", "", None, "")

\* Mutant: review_parts[0:-3]
DropLastThree(parts) ==
    IF Len(parts) <= 3 THEN <<>> ELSE SubSeq(parts, 1, Len(parts) - 3)

\* review_parts[0:-2]
DropLastTwo(parts) ==
    IF Len(parts) <= 2 THEN <<>> ELSE SubSeq(parts, 1, Len(parts) - 2)

\* The return statement of extract_review: _rating is bound only when the
\* container held a rating.
BuildReview(ratings, reviewer, review_date, review_text) ==
    IF Len(ratings) = 0 THEN Raise("UnboundLocalError")
    ELSE Outcome("dict", reviewer, review_date, ratings[1], review_text)

\* Mutant: review_parts[0], the first of what is left.
ReviewTextFirst(rest) == IF Len(rest) > 0 THEN rest[1] ELSE ""

\* review_text: the last of what is left after the two pops, or "".
ReviewText(rest) == IF Len(rest) > 0 THEN rest[Len(rest)] ELSE ""

\* Mutant: the date is not checked.
UnpackUnchecked(ratings, parts) ==
    IF Len(parts) = 0 THEN ReturnNone
    ELSE IF Len(parts) = 1 THEN Raise("IndexError")
    ELSE BuildReview(ratings, parts[1], parts[2], ReviewText(SubSeq(parts, 3, Len(parts))))

\* The two pops, the check of the date and the rest of extract_review.
Unpack(ratings, parts) ==
    IF Len(parts) = 0 THEN ReturnNone
    ELSE IF Len(parts) = 1 THEN Raise("IndexError")
    ELSE IF ~is_date(parts[2]) THEN ReturnNone
    ELSE BuildReview(ratings, parts[1], parts[2], ReviewText(SubSeq(parts, 3, Len(parts))))

\* Truncate reply fields, which end with a date.
Truncate(parts) ==
    IF is_date(parts[Len(parts)]) THEN DropLastTwo(parts) ELSE parts

ExtractParts(ratings, review_parts) ==
    IF Len(review_parts) = 0 THEN ReturnNone
    ELSE Unpack(ratings, Truncate(review_parts))

extract_review(review_container) ==
    ExtractParts(Ratings(review_container.elems), LeafTexts(review_container.elems))

\* The divs of the snapshot in document order, each with the class of its
\* sixth ancestor: a container's descendants lie six levels below it.
RECURSIVE AllDivs(_)
AllDivs(containers) ==
    IF containers = <<>> THEN <<>>
    ELSE [i \in 1..Len(Head(containers).elems) |->
             [elem |-> Head(containers).elems[i], class |-> Head(containers).class]]
         \o AllDivs(Tail(containers))

IsAnchor(d) == Truthy(get_rating(d.elem))

IsDict(r) == r.tag = "dict"

IsRaise(r) == r.tag \notin {"dict", "None"}

\* soup.find_all("div", {"class": parent_class})
ContainersOf(containers, parent_class) ==
    SelectSeq(containers, LAMBDA c : c.class = parent_class)

\* map(extract_review, review_containers)
ExtractAll(review_containers) ==
    [i \in 1..Len(review_containers) |-> extract_review(review_containers[i])]

\* The index of the first result that is a raised exception (0 when none).
FirstRaise(results) ==
    IF \E i \in 1..Len(results) : IsRaise(results[i])
    THEN CHOOSE i \in 1..Len(results) :
             IsRaise(results[i]) /\ \A j \in 1..(i - 1) : ~IsRaise(results[j])
    ELSE 0

\* list(filter(bool, map(...))): the first exception ends the call.
Collect(results, raised) ==
    IF raised > 0 THEN [tag |-> results[raised].tag, reviews |-> <<>>]
    ELSE [tag |-> "ok", reviews |-> SelectSeq(results, IsDict)]

CollectAll(results) == Collect(results, FirstRaise(results))

ParseFrom(containers, anchors) ==
    IF Len(anchors) = 0 THEN [tag |-> "UnboundLocalError", reviews |-> <<>>]
    ELSE CollectAll(ExtractAll(ContainersOf(containers, anchors[1].class)))

\* parse_reviews: [tag, reviews], tag "ok" with the list of records, or the
\* name of the exception that ended the call.
parse_reviews(containers) ==
    ParseFrom(containers, SelectSeq(AllDivs(containers), IsAnchor))

(***************************************************************************)
(* Bounds of the model and the pools its inputs are drawn from.            *)
(***************************************************************************)
MaxApps == 2

MaxScrolls == 2

MaxLen == 1

\* The program's constant: expand passes per round.
TENACITY == 10

\* Application identifiers of the --app-ids list; "" is what splitting an
\* empty option value, or one with a stray comma, gives.
AppIds == {"", "a"}

\* HTTP status codes the play store may answer with.
Statuses == {200, 204, 304, 404, 503}

\* The values len(driver.page_source) may take.
Lens == 0..MaxLen

\* The elements a page may hold, in document order: 'Full Review' buttons
\* and 'Show More' spans.
ButtonPool == <<"button1">>

SpanPool == <<"span1">>

\* What element.click() may do: succeed, raise one of the two exceptions
\* _click_element catches, or raise another WebDriverException.
ClickOutcomes ==
    {"clicked", "ElementNotInteractableException",
     "ElementClickInterceptedException", "StaleElementReferenceException"}

\* All order-preserving sublists of a list: what find_elements may return
\* while the page renders.
RECURSIVE Sublists(_)
Sublists(xs) ==
    IF xs = <<>> THEN {<<>>}
    ELSE LET rest == Sublists(Tail(xs))
         IN  rest \cup {<<Head(xs)>> \o r : r \in rest}

VARIABLES
    app_ids,        \* playscrape: the list app_ids.split(",")
    max_scrolls,    \* playscrape: the --max-scrolls option
    pc,             \* the statement the program is at
    exc,            \* the exception that ended the program ("" when none)
    vidx,           \* how many identifiers map(validate_app_id, ...) has taken
    vstatus,        \* validate_app_id: response.status_code of the running call
    vout,           \* validate_app_id: the marks the running call has printed
    vreturned,      \* validate_app_id: whether the running call returns app_id
    aidx,           \* playscrape: how many identifiers the for loop has done
    sessions,       \* how many browser sessions webdriver.Chrome has opened
    driver_open,    \* whether the current session is open (not yet closed)
    CACHE,          \* the module's dict CACHE: str(element) -> bool
    page_len,       \* what len(driver.page_source) gives when expand_reviews reads it
    ipage,          \* expand_reviews: the loop variable ipage
    html_length,    \* expand_reviews: html_length of the round
    found_the_end,  \* expand_reviews: found_the_end
    tpass,          \* expand_reviews: passes of range(TENACITY) done this round
    kind,           \* which click_elements call of the pass is running
    todo,           \* click_elements: the elements still to iterate
    success,        \* click_elements: success of the current element
    warned,         \* expand_reviews: the red max-scrolls message was printed
    html_source,    \* expand_and_parse_reviews: the snapshot (its containers)
    html_files,     \* identifiers whose -source.html and -title are on disk
    html_session,   \* the session whose page the files written last hold (0: none)
    data_files,     \* identifiers whose .json document is on disk
    reviews,        \* parse_reviews' returned list
    rounds,         \* history: rounds started by the running expand_reviews
    scrolls,        \* history: END keys sent by the running expand_reviews
    unchanged_at,   \* history: the first round that ended with equal lengths
    did_click,      \* history: the _click_element call that just returned ran element.click()
    ok_clicks,      \* history: per element of the session, element.click() calls from its first success on
    failed_last     \* history: elements of the session whose last handled attempt failed

vars ==
    <<app_ids, max_scrolls, pc, exc, vidx, vstatus, vout, vreturned, aidx,
      sessions, driver_open, CACHE, page_len, ipage, html_length,
      found_the_end, tpass, kind, todo, success, warned, html_source,
      html_files, html_session, data_files, reviews, rounds, scrolls,
      unchanged_at, did_click, ok_clicks, failed_last>>

inputVars == <<app_ids, max_scrolls>>

validateVars == <<vidx, vstatus, vout, vreturned>>

browserVars == <<sessions, driver_open>>

expandVars == <<ipage, html_length, found_the_end, tpass, warned>>

clickVars == <<kind, todo, success, CACHE>>

fileVars == <<html_source, html_files, html_session, data_files, reviews>>

historyVars == <<rounds, scrolls, unchanged_at, did_click, ok_clicks, failed_last>>

(***************************************************************************)
(* Snapshots the extractor is given.                                       *)
(***************************************************************************)
MaxLeaves == 4

MaxContainers == 3

Elem(label, children, text) == [label |-> label, children |-> children, text |-> text]

Leaf(text) == Elem(None, 0, text)

Texts ==
    {"", "Alice", "Great app", "June 1, 2020", "june  02, 2020",
     "Nov 23, 1234", "February 30, 2021"}

Rated5 == Elem("Rated 5 stars out of five stars", 0, "")

Rated3 == Elem("Rated 3 stars out of five stars", 0, "")

\* The elements of a container that carry no leaf text: none, one rating, a
\* label of the wrong length before two ratings, a labelled parent element.
Heads ==
    { <<>>,
      <<Rated5>>,
      <<Elem("Rated 10 stars out of five stars", 0, ""), Rated3, Rated5>>,
      <<Elem("Close", 2, "Alice")>> }

\* The sequences over S of length at most n.
SeqsUpTo(S, n) == UNION {[1..k -> S] : k \in 0..n}

Container(class, head, texts) ==
    [class |-> class,
     elems |-> head \o [i \in 1..Len(texts) |-> Leaf(texts[i])]]

Candidates ==
    {Container("review", h, t) : h \in Heads, t \in SeqsUpTo(Texts, MaxLeaves)}

\* Candidates of the fixture snapshots: two well-formed ones, one without
\* leaf text, one with neither leaf text nor rating, one with a single leaf,
\* one with a reply block, one without rating, one of another class.
WellFormedA == Container("review", <<Rated5>>, <<"Alice", "June 1, 2020", "Great app">>)

WellFormedB ==
    Container("review", <<Elem("Close", 2, "Alice"), Rated3>>,
              <<"Bob", "june  02, 2020", "Alice", "Great app">>)

NoLeafText == Container("review", <<Rated5>>, <<"">>)

Blank == Container("review", <<>>, <<"">>)

OneLeaf == Container("review", <<Rated5>>, <<"Alice">>)

WithReply ==
    Container("review", <<Rated5>>, <<"Alice", "June 1, 2020", "Bob", "june  02, 2020">>)

NoRating == Container("review", <<>>, <<"Alice", "June 1, 2020", "Great app">>)

OtherClass == Container("other", <<Rated3>>, <<"Bob", "June 1, 2020", "Great app">>)

BatchCandidates ==
    {WellFormedA, WellFormedB, NoLeafText, Blank, OneLeaf, WithReply, NoRating,
     OtherClass}

\* The snapshots of the extractor's specification: every one-container
\* snapshot, and the snapshots of up to MaxContainers fixture candidates.
ExtractInputs ==
    {<<c>> : c \in Candidates} \cup SeqsUpTo(BatchCandidates, MaxContainers)

\* The snapshots driver.page_source may hold at the end of a crawl.
PageFixtures ==
    {<<WellFormedA, NoLeafText, WellFormedB>>, <<NoRating>>, <<WellFormedA, OneLeaf>>}

(***************************************************************************)
(* Identifier validation.                                                  *)
(***************************************************************************)
\* Mutant: raise_for_status never raises.
raise_for_status_never(status) == FALSE

\* requests' Response.raise_for_status: HTTPError for 4xx and 5xx.
raise_for_status(status) == 400 <= status /\ status < 600

\* validate_app_id with the response's status: what it printed (the ends of
\* its validating_echo calls) and whether it raised or returned app_id.
validate_app_id(status) ==
    LET first == <<"\\r">>
    IN  IF status # 200
        THEN IF raise_for_status(status)
             THEN [raised |-> TRUE, out |-> first \o <<"cross">>]
             ELSE [raised |-> FALSE, out |-> first \o <<"cross", "tick">>]
        ELSE [raised |-> FALSE, out |-> first \o <<"tick">>]

(***************************************************************************)
(* The state machine of the playscrape command.                            *)
(***************************************************************************)
Elements == {ButtonPool[i] : i \in 1..Len(ButtonPool)} \cup {SpanPool[i] : i \in 1..Len(SpanPool)}

\* str(element): a WebElement prints its session and its element id.
Key(session, element) == <<session, element>>

Init ==
    /\ app_ids \in SeqsUpTo(AppIds, MaxApps) \ {<<>>}
    /\ max_scrolls \in 0..MaxScrolls
    /\ pc = "start"
    /\ exc = ""
    /\ vidx = 0
    /\ vstatus = 0
    /\ vout = <<>>
    /\ vreturned = FALSE
    /\ aidx = 0
    /\ sessions = 0
    /\ driver_open = FALSE
    /\ CACHE = [k \in {} |-> TRUE]
    /\ page_len = 0
    /\ ipage = 0
    /\ html_length = 0
    /\ found_the_end = FALSE
    /\ tpass = 0
    /\ kind = "button"
    /\ todo = <<>>
    /\ success = FALSE
    /\ warned = FALSE
    /\ html_source = <<>>
    /\ html_files = {}
    /\ html_session = 0
    /\ data_files = {}
    /\ reviews = <<>>
    /\ rounds = 0
    /\ scrolls = 0
    /\ unchanged_at = 0
    /\ did_click = FALSE
    /\ ok_clicks = [e \in Elements |-> 0]
    /\ failed_last = {}

\* playscrape, before the loop: the split list of an empty option is [""].
Prepare ==
    /\ pc = "start"
    /\ IF app_ids = <<"">>
       THEN pc' = "error" /\ exc' = "ValueError"
       ELSE pc' = "validate" /\ exc' = exc
    /\ UNCHANGED <<inputVars, validateVars, aidx, browserVars, page_len,
                   expandVars, clickVars, fileVars, historyVars>>

\* list(map(validate_app_id, app_ids)) calls validate_app_id on the next
\* identifier: the request is answered, the marks are printed, and the call
\* raises or is about to return app_id.
Validate ==
    /\ pc = "validate"
    /\ vidx < Len(app_ids)
    /\ \E status \in Statuses :
         LET r == validate_app_id(status)
         IN  /\ vstatus' = status
             /\ vout' = r.out
             /\ vreturned' = ~r.raised
             /\ IF r.raised
                THEN pc' = "error" /\ exc' = "HTTPError"
                ELSE pc' = "validated" /\ exc' = exc
    /\ UNCHANGED <<inputVars, vidx, aidx, browserVars, page_len, expandVars,
                   clickVars, fileVars, historyVars>>

\* Mutant: map without list(), each identifier is crawled once validated.
AfterValidateLazy(taken, total) == "process"

\* list(map(...)) is complete before the for loop takes its first item.
AfterValidate(taken, total) == IF taken = total THEN "process" ELSE "validate"

\* validate_app_id returns (its locals are gone); map takes the next
\* identifier, or the list is complete and the for loop starts.
ValidateReturn ==
    /\ pc = "validated"
    /\ vidx' = vidx + 1
    /\ vstatus' = 0
    /\ vout' = <<>>
    /\ vreturned' = FALSE
    /\ pc' = AfterValidate(vidx + 1, Len(app_ids))
    /\ UNCHANGED <<inputVars, exc, aidx, browserVars, page_len, expandVars,
                   clickVars, fileVars, historyVars>>

\* The for loop of playscrape takes the next identifier:
\* expand_and_parse_reviews enters open_browser, which launches the browser
\* (or fails to), and expand_reviews starts.
OpenBrowser ==
    /\ pc = "process"
    /\ aidx < Len(app_ids)
    /\ \/ /\ pc' = "error"
          /\ exc' = "WebDriverException"
          /\ UNCHANGED <<browserVars, page_len, expandVars, historyVars>>
       \/ /\ sessions' = sessions + 1
          /\ driver_open' = TRUE
          /\ page_len' \in Lens
          /\ found_the_end' = FALSE
          /\ ipage' = 0
          /\ warned' = FALSE
          /\ rounds' = 0
          /\ scrolls' = 0
          /\ unchanged_at' = 0
          /\ did_click' = FALSE
          /\ ok_clicks' = [e \in Elements |-> 0]
          /\ failed_last' = {}
          /\ pc' = "round"
          /\ UNCHANGED <<exc, html_length, tpass>>
    /\ UNCHANGED <<inputVars, validateVars, aidx, clickVars, fileVars>>

\* The for loop of playscrape is exhausted.
Finish ==
    /\ pc = "process"
    /\ aidx = Len(app_ids)
    /\ pc' = "done"
    /\ UNCHANGED <<inputVars, exc, validateVars, aidx, browserVars, page_len,
                   expandVars, clickVars, fileVars, historyVars>>

\* for ipage in range(max_scrolls): the next round records the length, or
\* the range is exhausted.
RoundStart ==
    /\ pc = "round"
    /\ IF ipage < max_scrolls
       THEN /\ html_length' = page_len
            /\ tpass' = 0
            /\ kind' = "button"
            /\ rounds' = rounds + 1
            /\ pc' = "find"
       ELSE /\ pc' = "warn"
            /\ UNCHANGED <<html_length, tpass, kind, rounds>>
    /\ UNCHANGED <<inputVars, exc, validateVars, aidx, browserVars, page_len,
                   ipage, found_the_end, warned, todo, success, CACHE,
                   fileVars, scrolls, unchanged_at, did_click, ok_clicks,
                   failed_last>>

\* Mutant: one expand pass per round.
AfterClickElementsOnePass ==
    IF kind = "button"
    THEN kind' = "span" /\ tpass' = tpass /\ pc' = "find"
    ELSE tpass' = tpass + 1 /\ kind' = kind /\ pc' = "scroll"

\* What follows a click_elements call that has iterated all its elements:
\* the span call of the pass, the next pass, or the scroll.
AfterClickElements ==
    IF kind = "button"
    THEN kind' = "span" /\ tpass' = tpass /\ pc' = "find"
    ELSE /\ tpass' = tpass + 1
         /\ IF tpass + 1 < TENACITY
            THEN kind' = "button" /\ pc' = "find"
            ELSE kind' = kind /\ pc' = "scroll"

Pool(k) == IF k = "button" THEN ButtonPool ELSE SpanPool

\* click_elements: driver.find_elements returns the matching elements the
\* page holds now.
FindElements ==
    /\ pc = "find"
    /\ \E found \in Sublists(Pool(kind)) :
         IF found = <<>>
         THEN AfterClickElements /\ todo' = todo
         ELSE todo' = found /\ pc' = "click" /\ UNCHANGED <<kind, tpass>>
    /\ UNCHANGED <<inputVars, exc, validateVars, aidx, browserVars, page_len,
                   ipage, html_length, found_the_end, warned, success, CACHE,
                   fileVars, historyVars>>

\* The body of _click_element, given what element.click() did: the value it
\* returns, or the exception it lets through.
ClickBody(outcome) ==
    IF outcome = "clicked" THEN [raised |-> FALSE, value |-> TRUE]
    ELSE IF outcome \in {"ElementNotInteractableException",
                         "ElementClickInterceptedException"}
    THEN [raised |-> FALSE, value |-> FALSE]
    ELSE [raised |-> TRUE, value |-> FALSE]

\* Mutant: the decorator's lookup never finds the key.
CacheHitNever(cache, key) == FALSE

\* cachetools.cached: a key held by the cache is answered from the cache.
CacheHit(cache, key) == key \in DOMAIN cache

\* Mutant: the decorator does not store the result.
CachePutSkipped(cache, key, value) == cache

\* cachetools.cached: the result of a call that returned is stored.
CachePut(cache, key, value) ==
    [k \in DOMAIN cache \cup {key} |-> IF k = key THEN value ELSE cache[k]]

\* del CACHE[key]
CacheDel(cache, key) == [k \in DOMAIN cache \ {key} |-> cache[k]]

\* Mutant: click_elements never deletes.
EvictsNever(ok) == FALSE

\* click_elements: `if not success`.
Evicts(ok) == ~ok

\* element.click() ran and did not succeed: it counts once the element has
\* succeeded before.
CountClick(element) ==
    [ok_clicks EXCEPT ![element] = IF @ > 0 THEN @ + 1 ELSE @]

\* click_elements calls the cached _click_element on the next element.
ClickElement ==
    /\ pc = "click"
    /\ LET key == Key(sessions, Head(todo))
       IN  IF CacheHit(CACHE, key)
           THEN /\ success' = CACHE[key]
                /\ did_click' = FALSE
                /\ pc' = "evict"
                /\ UNCHANGED <<CACHE, exc, ok_clicks>>
           ELSE \E outcome \in ClickOutcomes :
                  LET r == ClickBody(outcome)
                  IN  /\ did_click' = TRUE
                      /\ IF r.raised
                         THEN /\ pc' = "error"
                              /\ exc' = outcome
                              /\ ok_clicks' = CountClick(Head(todo))
                              /\ UNCHANGED <<CACHE, success>>
                         ELSE /\ CACHE' = CachePut(CACHE, key, r.value)
                              /\ success' = r.value
                              /\ pc' = "evict"
                              /\ exc' = exc
                              /\ ok_clicks' =
                                    IF r.value
                                    THEN [ok_clicks EXCEPT ![Head(todo)] = @ + 1]
                                    ELSE CountClick(Head(todo))
    /\ UNCHANGED <<inputVars, validateVars, aidx, browserVars, page_len,
                   expandVars, kind, todo, fileVars, rounds, scrolls,
                   unchanged_at, failed_last>>

\* click_elements, after the call: a failure is deleted from the cache; then
\* the loop takes the next element.
Evict ==
    /\ pc = "evict"
    /\ LET key == Key(sessions, Head(todo))
           missing == Evicts(success) /\ key \notin DOMAIN CACHE
       IN  /\ CACHE' = IF Evicts(success) /\ ~missing THEN CacheDel(CACHE, key) ELSE CACHE
           /\ failed_last' = IF success THEN failed_last \ {Head(todo)}
                             ELSE failed_last \cup {Head(todo)}
           /\ todo' = Tail(todo)
           /\ success' = FALSE
           /\ did_click' = FALSE
           /\ IF missing
              THEN pc' = "error" /\ exc' = "KeyError" /\ UNCHANGED <<kind, tpass>>
              ELSE /\ exc' = exc
                   /\ IF Tail(todo) = <<>>
                      THEN AfterClickElements
                      ELSE pc' = "click" /\ UNCHANGED <<kind, tpass>>
    /\ UNCHANGED <<inputVars, validateVars, aidx, browserVars, page_len, ipage,
                   html_length, found_the_end, warned, fileVars, rounds,
                   scrolls, unchanged_at, ok_clicks>>

\* html.send_keys(Keys.END) and the settle pause.  The page has rendered
\* whatever the clicks and the scroll of the round made it render: its
\* length, read next by the comparison, is any of Lens.
Scroll ==
    /\ pc = "scroll"
    /\ page_len' \in Lens
    /\ scrolls' = scrolls + 1
    /\ pc' = "compare"
    /\ UNCHANGED <<inputVars, exc, validateVars, aidx, browserVars, expandVars,
                   clickVars, fileVars, rounds, unchanged_at, did_click,
                   ok_clicks, failed_last>>

\* Mutant: the comparison never ends the loop.
LoopBreaksNever(now, before) == FALSE

\* `if len(driver.page_source) == html_length`: the loop ends.
LoopBreaks(now, before) == now = before

Compare ==
    /\ pc = "compare"
    /\ unchanged_at' = IF page_len = html_length /\ unchanged_at = 0
                       THEN rounds ELSE unchanged_at
    /\ IF LoopBreaks(page_len, html_length)
       THEN found_the_end' = TRUE /\ ipage' = ipage /\ pc' = "warn"
       ELSE found_the_end' = found_the_end /\ ipage' = ipage + 1 /\ pc' = "round"
    /\ UNCHANGED <<inputVars, exc, validateVars, aidx, browserVars, page_len,
                   html_length, tpass, warned, clickVars, fileVars, rounds,
                   scrolls, did_click, ok_clicks, failed_last>>

\* Mutant: the message is always printed.
WarnsAlways(found) == TRUE

\* Mutant: the message is never printed.
WarnsNever(found) == FALSE

\* `if not found_the_end`: the message that max-scrolls should be increased.
Warns(found) == ~found

\* After the loop of expand_reviews; the function returns and its locals
\* are gone.
Warn ==
    /\ pc = "warn"
    /\ warned' = Warns(found_the_end)
    /\ ipage' = 0
    /\ html_length' = 0
    /\ found_the_end' = FALSE
    /\ tpass' = 0
    /\ kind' = "button"
    /\ pc' = "capture"
    /\ UNCHANGED <<inputVars, exc, validateVars, aidx, browserVars, page_len,
                   todo, success, CACHE, fileVars, historyVars>>

\* html_source = driver.page_source; title = driver.title; the with block
\* ends and open_browser closes the driver.
Capture ==
    /\ pc = "capture"
    /\ html_source' \in PageFixtures
    /\ driver_open' = FALSE
    /\ page_len' = 0
    /\ pc' = "write"
    /\ UNCHANGED <<inputVars, exc, validateVars, aidx, sessions,
                   expandVars, clickVars, html_files, html_session,
                   data_files, reviews, historyVars>>

\* Mutant: nothing is written.
SnapshotFilesLost(files, app_id) == files

\* The files of HTML_PATH once app_id's source and title are written.
SnapshotFiles(files, app_id) == files \cup {app_id}

\* The source and the title are written to HTML_PATH.
WriteSnapshot ==
    /\ pc = "write"
    /\ html_files' = SnapshotFiles(html_files, app_ids[aidx + 1])
    /\ html_session' = sessions
    /\ pc' = "parse"
    /\ UNCHANGED <<inputVars, exc, validateVars, aidx, browserVars, page_len,
                   expandVars, clickVars, html_source, data_files, reviews,
                   historyVars>>

\* The call's result reaches expand_and_parse_reviews' caller, or its
\* exception ends the program.
ParseResult(r) ==
    IF r.tag = "ok"
    THEN reviews' = r.reviews /\ pc' = "output" /\ exc' = exc
    ELSE reviews' = reviews /\ pc' = "error" /\ exc' = r.tag

\* reviews = parse_reviews(html_source=html_source)
Parse ==
    /\ pc = "parse"
    /\ ParseResult(parse_reviews(html_source))
    /\ UNCHANGED <<inputVars, validateVars, aidx, browserVars, page_len,
                   expandVars, clickVars, html_source, html_files,
                   html_session, data_files, historyVars>>

\* playscrape writes {title, reviews} to DATA_PATH and loops.
WriteData ==
    /\ pc = "output"
    /\ data_files' = data_files \cup {app_ids[aidx + 1]}
    /\ aidx' = aidx + 1
    /\ pc' = "process"
    /\ UNCHANGED <<inputVars, exc, validateVars, browserVars, page_len,
                   expandVars, clickVars, html_source, html_files,
                   html_session, reviews, historyVars>>

Next ==
    \/ Prepare
    \/ Validate
    \/ ValidateReturn
    \/ OpenBrowser
    \/ Finish
    \/ RoundStart
    \/ FindElements
    \/ ClickElement
    \/ Evict
    \/ Scroll
    \/ Compare
    \/ Warn
    \/ Capture
    \/ WriteSnapshot
    \/ Parse
    \/ WriteData

Spec == Init /\ [][Next]_vars

(***************************************************************************)
(* The extractor alone: the program is about to parse the snapshot of its  *)
(* only identifier, and the snapshot is any of ExtractInputs.              *)
(***************************************************************************)
InitExtract ==
    /\ app_ids = <<"a">>
    /\ max_scrolls = 0
    /\ pc = "parse"
    /\ exc = ""
    /\ vidx = 1
    /\ vstatus = 0
    /\ vout = <<>>
    /\ vreturned = FALSE
    /\ aidx = 0
    /\ sessions = 1
    /\ driver_open = FALSE
    /\ CACHE = [k \in {} |-> TRUE]
    /\ page_len = 0
    /\ ipage = 0
    /\ html_length = 0
    /\ found_the_end = FALSE
    /\ tpass = 0
    /\ kind = "button"
    /\ todo = <<>>
    /\ success = FALSE
    /\ warned = TRUE
    /\ html_source \in ExtractInputs
    /\ html_files = {"a"}
    /\ html_session = 1
    /\ data_files = {}
    /\ reviews = <<>>
    /\ rounds = 0
    /\ scrolls = 0
    /\ unchanged_at = 0
    /\ did_click = FALSE
    /\ ok_clicks = [e \in Elements |-> 0]
    /\ failed_last = {}

NextExtract == Parse \/ WriteData \/ Finish

SpecExtract == InitExtract /\ [][NextExtract]_vars

(***************************************************************************)
(* Properties.                                                             *)
(***************************************************************************)
\* The element click_elements is handling.
Current == Head(todo)

\* C1: once _click_element has succeeded for a key of the session, every
\* later attempt with that key returns True without calling element.click()
\* again: the key has exactly one underlying interaction from its first
\* success on.
C1_ClickCacheIdempotence ==
    /\ \A e \in Elements : ok_clicks[e] <= 1
    /\ \A e \in Elements :
         ok_clicks[e] = 1 =>
            /\ Key(sessions, e) \in DOMAIN CACHE
            /\ CACHE[Key(sessions, e)] = TRUE
    /\ (pc = "evict" /\ ok_clicks[Current] = 1) => success = TRUE

\* A later attempt with a key that has succeeded was answered without a click.
C1_Witness ==
    pc = "evict" /\ ok_clicks[Current] = 1 /\ ~did_click /\ success = TRUE

\* C2: after a failed attempt the key is absent from the cache once
\* click_elements has handled the element, and the next attempt with the
\* same key calls element.click() again.
C2_ClickCacheRetry ==
    /\ \A e \in failed_last :
         \/ pc = "evict" /\ Current = e
         \/ Key(sessions, e) \notin DOMAIN CACHE
    /\ (pc = "evict" /\ Current \in failed_last) => did_click

\* The attempt after a failed one has clicked again.
C2_Witness == pc = "evict" /\ Current \in failed_last /\ did_click

\* C3: when round k is the first round whose length is unchanged,
\* expand_reviews performs exactly k rounds (k scrolls), whatever is left of
\* the budget, and prints no warning.
C3_StabilizerConvergence ==
    unchanged_at > 0 =>
        /\ rounds = unchanged_at
        /\ scrolls = unchanged_at
        /\ unchanged_at <= max_scrolls
        /\ ~warned

\* expand_reviews has returned after converging with budget left.
C3_Witness == pc = "capture" /\ unchanged_at > 0 /\ unchanged_at < max_scrolls

\* C4: when the length changes in every round, expand_reviews ends after
\* exactly max_scrolls rounds, prints the warning and returns normally, the
\* session still open for the snapshot.
C4_BudgetExhaustion ==
    /\ rounds <= max_scrolls
    /\ (pc = "capture" /\ unchanged_at = 0) =>
          /\ rounds = max_scrolls
          /\ scrolls = max_scrolls
          /\ warned
          /\ exc = ""
          /\ driver_open

\* Two rounds, both changing the length, and the warning.
C4_Witness ==
    pc = "capture" /\ unchanged_at = 0 /\ max_scrolls >= 2 /\ rounds = max_scrolls /\ warned

\* The non-empty leaf texts of a container.
Parts(c) == LeafTexts(c.elems)

\* C5: every record parse_reviews returns has a non-empty reviewer and a
\* date accepted by is_date, and both are the first two leaf texts of a
\* container of the snapshot (nothing is substituted).
C5_RecordInvariant ==
    \A i \in 1..Len(reviews) :
        /\ reviews[i].reviewer # ""
        /\ is_date(reviews[i].date)
        /\ \E j \in 1..Len(html_source) :
              /\ Len(Parts(html_source[j])) >= 2
              /\ reviews[i].reviewer = Parts(html_source[j])[1]
              /\ reviews[i].date = Parts(html_source[j])[2]

\* parse_reviews has returned records.
C5_Witness == pc = "output" /\ Len(reviews) >= 1

\* Every container of the snapshot carries a rating.
AllRated == \A j \in 1..Len(html_source) : Len(Ratings(html_source[j].elems)) > 0

\* C6 (as claimed): whatever the leaf texts of the candidates, extraction
\* does not raise.  Stated for snapshots whose containers all carry a
\* rating, where the leaf texts alone decide.
C6_MalformedNeverAborts == AllRated => exc = ""

\* The class of the snapshot's review containers (of the first anchor).
HasAnchor == Len(SelectSeq(AllDivs(html_source), IsAnchor)) > 0

SignatureClass == SelectSeq(AllDivs(html_source), IsAnchor)[1].class

\* Leaves [reviewerA, date, replyAuthor, date].
ReplyShape(parts) == Len(parts) = 4 /\ is_date(parts[2]) /\ is_date(parts[4])

\* A container with a rating and a reply block.
IsReply(c) == ReplyShape(Parts(c)) /\ Len(Ratings(c.elems)) > 0

\* The snapshot is one rated container with a reply block.
ReplyCase == Len(html_source) = 1 /\ IsReply(html_source[1])

\* C7 (as claimed): the candidate [reviewerA, date, replyAuthor, date] is
\* truncated to [reviewerA] and no record is emitted.
C7_ReplyRejected ==
    (ReplyCase /\ pc # "parse") =>
        /\ Len(Truncate(Parts(html_source[1]))) = 1
        /\ reviews = <<>>

\* The record of a container with a reply block: its first two leaves, its
\* rating, and an empty text.
ReplyRecord(c) ==
    Outcome("dict", Parts(c)[1], Parts(c)[2], Ratings(c.elems)[1], "")

\* C7 (amended): the truncation leaves [reviewerA, date], and the candidate,
\* a rated review container, is not rejected: parse_reviews, when it
\* returns, returns the record of reviewerA with that date and an empty text; alone
\* in the snapshot the candidate makes nothing raise.
C7_ReplyTruncated ==
    /\ \A j \in 1..Len(html_source) :
         (IsReply(html_source[j]) /\ html_source[j].class = SignatureClass) =>
            /\ Truncate(Parts(html_source[j])) = SubSeq(Parts(html_source[j]), 1, 2)
            /\ (pc # "parse" /\ exc = "") =>
                  \E i \in 1..Len(reviews) : reviews[i] = ReplyRecord(html_source[j])
    /\ ReplyCase =>
         /\ exc = ""
         /\ pc # "parse" => reviews = <<ReplyRecord(html_source[1])>>

C7_Witness == ReplyCase /\ pc = "output" /\ reviews = <<ReplyRecord(html_source[1])>>

\* A review container with reviewer and date and no rating.
Unrated(c) ==
    /\ c.class = SignatureClass
    /\ Len(Ratings(c.elems)) = 0
    /\ Len(Parts(c)) >= 2
    /\ ~is_date(Parts(c)[Len(Parts(c))])
    /\ is_date(Parts(c)[2])

\* C8 (as claimed): a candidate with reviewer and date and no rating yields
\* a record whose rating is None.  Stated for snapshots no candidate of
\* which fails for its leaf texts.
C8_RatingOptional ==
    (HasAnchor /\ pc # "parse" /\ exc # "IndexError") =>
        \A j \in 1..Len(html_source) :
            Unrated(html_source[j]) =>
                /\ exc = ""
                /\ \E i \in 1..Len(reviews) :
                      /\ reviews[i].rating = None
                      /\ reviews[i].reviewer = Parts(html_source[j])[1]
                      /\ reviews[i].date = Parts(html_source[j])[2]

HasTick(out) == \E i \in 1..Len(out) : out[i] = "tick"

\* C9 (as claimed): validate_app_id returns the identifier and prints the
\* success mark iff the status is 200; for every other status it raises.
C9_ValidIffOk ==
    vstatus # 0 =>
        /\ vreturned <=> vstatus = 200
        /\ HasTick(vout) <=> vstatus = 200
        /\ (vstatus # 200 => (pc = "error" /\ exc = "HTTPError"))

\* C10: no browser session is opened, and no crawl step is taken, before
\* every identifier of the list has been validated; when validate_app_id
\* raises for an identifier, no session has been opened and nothing has been
\* written.
C10_FailFast ==
    /\ (sessions > 0 \/ pc \notin {"start", "validate", "validated", "error"})
          => vidx = Len(app_ids)
    /\ exc = "HTTPError" =>
          /\ sessions = 0
          /\ html_files = {}
          /\ data_files = {}

\* The second identifier failed validation after the first had passed.
C10_Witness == pc = "error" /\ exc = "HTTPError" /\ vidx >= 1 /\ sessions = 0

\* C11 (as claimed): when validate_app_id raises for an identifier, the
\* identifiers that passed validation before it are still crawled and their
\* documents written.  The program has ended: nothing more will be written.
C11_OthersStillCrawled ==
    (pc = "error" /\ exc = "HTTPError") =>
        \A i \in 1..vidx : app_ids[i] \in data_files

\* C11 (amended): a validation failure of one identifier is fatal for the
\* whole batch: a 4xx or 5xx answer ends the program with HTTPError, no step
\* is enabled afterwards, and none of the identifiers, those that passed
\* validation included, is crawled or has a document written.
C11_FailureAbortsBatch ==
    /\ vstatus >= 400 => exc = "HTTPError"
    /\ exc = "HTTPError" =>
          /\ pc = "error"
          /\ ~ENABLED Next
          /\ aidx = 0
          /\ \A i \in 1..Len(app_ids) :
                app_ids[i] \notin data_files /\ app_ids[i] \notin html_files

\* The first identifier passed validation, the second was answered 4xx/5xx.
C11_Witness ==
    /\ Len(app_ids) = 2 /\ vidx = 1 /\ vstatus >= 400
    /\ exc = "HTTPError" /\ data_files = {}

\* The statements inside the with block of expand_and_parse_reviews.
InWithBlock ==
    pc \in {"round", "find", "click", "evict", "scroll", "compare", "warn", "capture"}

\* C12 (as claimed): whenever control is outside the with block, having
\* left it normally or by an exception, the session open_browser opened has
\* been closed.
C12_SessionClosed == ~InWithBlock => ~driver_open

\* C13 (as claimed): the cache is discarded when the session closes, and
\* holds no entry made during an earlier session when the next one opens.
C13_CacheSessionScoped ==
    /\ (sessions > 0 /\ ~driver_open /\ pc # "error") => DOMAIN CACHE = {}
    /\ \A k \in DOMAIN CACHE : k[1] = sessions

\* The errors the command lets through by design: no identifier given, an
\* identifier that fails validation, a browser that cannot be launched.
HardErrors == {"ValueError", "HTTPError", "WebDriverException"}

\* C14 (as claimed): no error caused by element interaction or by the
\* content of the page ends the program.
C14_DomIssuesAbsorbed == exc = "" \/ exc \in HardErrors

\* A well-formed candidate: a rating, then reviewer, date and, last, a text
\* (which is not itself a date: a trailing date is a reply block).
WellFormed(c) ==
    /\ Len(Ratings(c.elems)) > 0
    /\ Len(Parts(c)) >= 3
    /\ is_date(Parts(c)[2])
    /\ ~is_date(Parts(c)[Len(Parts(c))])

\* A candidate without leaf text.
NoLeaf(c) == Len(Parts(c)) = 0

IsCandidate(c) == c.class = SignatureClass

\* The snapshot's candidates are well-formed ones and ones without leaf text.
FixtureCase ==
    /\ HasAnchor
    /\ \A j \in 1..Len(html_source) :
          IsCandidate(html_source[j]) =>
              WellFormed(html_source[j]) \/ NoLeaf(html_source[j])

\* The record a well-formed candidate stands for.
RecordOf(c) ==
    Outcome("dict", Parts(c)[1], Parts(c)[2], Ratings(c.elems)[1],
            Parts(c)[Len(Parts(c))])

WellFormedCandidates ==
    SelectSeq(html_source, LAMBDA c : IsCandidate(c) /\ WellFormed(c))

ExpectedRecords ==
    [i \in 1..Len(WellFormedCandidates) |-> RecordOf(WellFormedCandidates[i])]

\* C15: for a snapshot whose candidates are k well-formed ones interleaved
\* with candidates without leaf text, parse_reviews raises nothing and
\* returns exactly the k records of the well-formed candidates, fields
\* intact, in document order.
C15_EndToEnd ==
    FixtureCase =>
        /\ exc = ""
        /\ pc # "parse" => reviews = ExpectedRecords

\* Two distinct well-formed candidates around one without leaf text.
C15_Witness ==
    /\ pc = "output"
    /\ FixtureCase
    /\ Len(html_source) = 3
    /\ NoLeaf(html_source[2])
    /\ Len(reviews) = 2
    /\ reviews[1] # reviews[2]

\* A candidate whose second leaf value is not a valid date.
SecondNotDate(c) == Len(Parts(c)) >= 2 /\ ~is_date(Parts(c)[2])

\* The snapshot is one rated container whose second leaf is not a date.
SecondNotDateCase ==
    Len(html_source) = 1 /\ HasAnchor /\ SecondNotDate(html_source[1])

\* Three leaves of which the last is a date: the truncation leaves one.
TruncatedToOne(c) == Len(Parts(c)) = 3 /\ is_date(Parts(c)[3])

\* The candidates whose second leaf value is a valid date.
DateAnchored ==
    SelectSeq(html_source,
              LAMBDA c : IsCandidate(c) /\ Len(Parts(c)) >= 2 /\ is_date(Parts(c)[2]))

\* C16: a candidate whose second leaf value is not a valid date yields no
\* record, whatever its first and its remaining leaf values: alone in the
\* snapshot it leaves the list empty (it is rejected by a return of None,
\* except that three leaves ending in a date end the call with IndexError),
\* and in any snapshot parse_reviews returns no more records than there are
\* candidates whose second leaf is a date.
C16_DateAnchoredRejection ==
    /\ SecondNotDateCase =>
          /\ reviews = <<>>
          /\ pc # "parse" =>
                IF TruncatedToOne(html_source[1])
                THEN exc = "IndexError" ELSE exc = ""
    /\ (pc = "output" /\ HasAnchor) => Len(reviews) <= Len(DateAnchored)

\* A candidate [x, not a date, y, date] has been parsed: truncated to
\* [x, not a date] and rejected.
C16_Witness ==
    /\ pc = "output"
    /\ SecondNotDateCase
    /\ Len(Parts(html_source[1])) = 4
    /\ is_date(Parts(html_source[1])[4])
    /\ reviews = <<>>

\* The exceptions parse_reviews ends with.
ParseErrors == {"IndexError", "UnboundLocalError"}

\* The identifier being crawled.
CurrentApp == app_ids[aidx + 1]

\* C17: when parse_reviews starts, and from then on, whether it returns or
\* raises, the source and the title of the crawl's own session are on disk
\* under the identifier; no document is written for an identifier without
\* its snapshot.
C17_SnapshotBeforeParse ==
    /\ (pc \in {"parse", "output"} \/ exc \in ParseErrors) =>
          /\ CurrentApp \in html_files
          /\ html_session = sessions
    /\ data_files \subseteq html_files

\* The extraction of the second crawl has failed; its snapshot is on disk.
C17_Witness ==
    /\ pc = "error"
    /\ exc \in ParseErrors
    /\ sessions = 2
    /\ html_session = 2
    /\ CurrentApp \in html_files

\* The statements of the expand passes of a round.
Expanding == pc \in {"find", "click", "evict"}

\* Where a round stands: the expand passes come before the round's scroll
\* and number TENACITY when it is sent; the comparison follows the scroll;
\* outside the rounds every round begun has had its one scroll; a
\* click_elements call returns only when it has attempted every element it
\* found.
RoundShape ==
    /\ Expanding => tpass < TENACITY /\ scrolls = rounds - 1 /\ rounds = ipage + 1
    /\ pc = "scroll" => tpass = TENACITY /\ scrolls = rounds - 1
    /\ pc = "compare" => tpass = TENACITY /\ scrolls = rounds
    /\ pc \in {"round", "warn", "capture"} => scrolls = rounds
    /\ pc \notin {"click", "evict", "error"} => todo = <<>>

\* The steps of a round: the length is recorded when the round starts, before
\* the first button call, and is not touched again in the round; a pass is
\* counted when its span call, which follows its button call, returns; the
\* END key is sent once, between the last pass and the comparison; the
\* comparison that finds equal lengths leaves the loop, and what follows the
\* loop neither expands nor scrolls.
RoundSteps ==
    /\ (pc = "round" /\ pc' = "find") =>
          html_length' = page_len /\ tpass' = 0 /\ kind' = "button"
    /\ (Expanding \/ pc \in {"scroll", "compare"}) => html_length' = html_length
    /\ (Expanding /\ tpass' # tpass) => kind = "span" /\ tpass' = tpass + 1
    /\ (Expanding /\ kind' # kind) =>
          IF kind = "button" THEN tpass' = tpass ELSE tpass' = tpass + 1
    /\ scrolls' > scrolls =>
          pc = "scroll" /\ scrolls' = scrolls + 1 /\ pc' = "compare"
    /\ pc = "compare" =>
          IF page_len = html_length THEN pc' = "warn" ELSE pc' = "round"
    /\ pc = "warn" => pc' = "capture" /\ scrolls' = scrolls /\ rounds' = rounds

\* C18: every round records the length first, then makes exactly TENACITY
\* expand passes (each a button call then a span call, every found element
\* attempted), then sends END exactly once, then compares; after the
\* comparison that ends the loop nothing is expanded or scrolled.
C18_RoundStructure == []RoundShape /\ [][RoundSteps]_vars

\* The second round of a crawl has reached its comparison.
C18_Witness ==
    pc = "compare" /\ rounds = 2 /\ scrolls = 2 /\ tpass = TENACITY /\ todo = <<>>

\* The session has had no element.click() handled and no END key sent.
Untouched ==
    /\ rounds = 0
    /\ scrolls = 0
    /\ failed_last = {}
    /\ \A e \in Elements : ok_clicks[e] = 0 /\ Key(sessions, e) \notin DOMAIN CACHE

\* C19: when expand_reviews has returned, the warning has been printed iff
\* no round ended with an unchanged length; with a budget of 0 it is printed
\* and nothing was clicked or scrolled; when the last round of the budget is
\* the one that converges it is not printed.
C19_WarningIffNoConvergence ==
    pc = "capture" =>
        /\ warned <=> unchanged_at = 0
        /\ max_scrolls = 0 => warned /\ Untouched
        /\ (max_scrolls > 0 /\ unchanged_at = max_scrolls) => ~warned

\* Convergence was detected in the last round of a budget of two or more.
C19_Witness ==
    pc = "capture" /\ max_scrolls >= 2 /\ unchanged_at = max_scrolls /\ ~warned

\* C20: outside the step between the return of _click_element and the
\* eviction, every entry of the cache is True; in that step the only entry
\* that may be False is the current element's, which is then present, so
\* `del CACHE[str(element)]` never raises KeyError.
C20_CacheHoldsSuccesses ==
    /\ \A k \in DOMAIN CACHE :
          CACHE[k] = FALSE => pc = "evict" /\ k = Key(sessions, Current)
    /\ pc = "evict" =>
          /\ Key(sessions, Current) \in DOMAIN CACHE
          /\ CACHE[Key(sessions, Current)] = success
    /\ exc # "KeyError"

\* click_elements has returned after evicting a failure, an earlier success
\* still cached.
C20_Witness ==
    /\ pc = "find"
    /\ failed_last # {}
    /\ DOMAIN CACHE # {}
    /\ \A k \in DOMAIN CACHE : CACHE[k] = TRUE

====
